---- MODULE Spec2Model ----
(***************************************************************************)
(* fzweb: a command-line bookmark manager.  The model follows src/lib.rs:  *)
(* Config (load / save / add_website / remove_website / list_websites /    *)
(* open_website), select, and run.  One invocation of the binary walks     *)
(* through run() step by step; successive invocations communicate only     *)
(* through the configuration file.                                         *)
(*                                                                         *)
(* Strings are sequences of one-character strings, so that the JSON        *)
(* written by save and read back by load is modelled character by          *)
(* character.                                                              *)
(***************************************************************************)
EXTENDS Integers, Sequences, FiniteSets, TLC

VARIABLES
    file,       \* ~/.config/fzweb/config.json: Absent, or its characters
    args,       \* Args of the current invocation
    pc,         \* position of the current invocation inside run(), or "idle"
    websites,   \* config.websites
    exit,       \* exit status of the process (meaningful when pc = "done")
    out,        \* messages printed by this invocation, in order
    steps,      \* requested steps of run() entered by this invocation
    loads,      \* calls of Config::load in this invocation
    saves,      \* calls of Config::save in this invocation
    names,      \* Option: the candidate list handed to select()
    selected,   \* Option: what select() returned
    launched,   \* urls handed to open::that in this invocation
    listed,     \* Option: the rows handed to Table::new
    ioFailed,   \* the file system failed a call of this invocation
    fileAtLoad, \* the file as Config::load found it
    lastSaved,  \* Option: the websites written by the save that produced file
    order,      \* reference list: surviving entries in insertion order
    resync,     \* the reference list is to be re-read at the next load
    runs        \* invocations started so far

vars == <<file, args, pc, websites, exit, out, steps, loads, saves, names,
          selected, launched, listed, ioFailed, fileAtLoad, lastSaved,
          order, resync, runs>>

----------------------------------------------------------------------------
(* Bounds *)

MaxRuns == 2        \* invocations of the binary in one behaviour
MaxInitLen == 1     \* entries in the configuration file found at the start

----------------------------------------------------------------------------
(* Option<T> as a sequence of length 0 or 1 *)

None == <<>>

Some(x) == <<x>>

(* The file does not exist.  No content equals it: a content is a sequence *)
(* of single characters.                                                   *)
Absent == <<"no such file">>

(* The strings the user types.  They contain the characters serde_json has *)
(* to escape: the quote, the backslash and a control character.            *)
NameArgs == { <<"a">>, <<"\"", "\n">> }

UrlArgs == { <<"x">>, <<"y", "\\">> }

Website(name, url) == [name |-> name, url |-> url]

Websites == { Website(n, u) : n \in NameArgs, u \in UrlArgs }

RECURSIVE SeqsUpTo(_, _)
SeqsUpTo(S, n) ==
    IF n = 0 THEN { <<>> }
    ELSE LET shorter == SeqsUpTo(S, n - 1)
         IN  shorter \cup { Append(s, x) : s \in shorter, x \in S }

----------------------------------------------------------------------------
(* serde_json::to_string_pretty on Config / Website *)

Indent(n) == [i \in 1..n |-> " "]

Quoted(s) == <<"\"">> \o s \o <<"\"">>

KeyWebsites == <<"w", "e", "b", "s", "i", "t", "e", "s">>

KeyName == <<"n", "a", "m", "e">>

KeyUrl == <<"u", "r", "l">>

(* A writer that leaves the backslash as it is. *)
EscapeChar_backslashRaw(c) ==
    IF c = "\"" THEN <<"\\", "\"">>
    ELSE IF c = "\n" THEN <<"\\", "n">>
    ELSE IF c = "\t" THEN <<"\\", "t">>
    ELSE IF c = "\r" THEN <<"\\", "r">>
    ELSE <<c>>

EscapeChar(c) ==
    IF c = "\"" THEN <<"\\", "\"">>
    ELSE IF c = "\\" THEN <<"\\", "\\">>
    ELSE IF c = "\n" THEN <<"\\", "n">>
    ELSE IF c = "\t" THEN <<"\\", "t">>
    ELSE IF c = "\r" THEN <<"\\", "r">>
    ELSE <<c>>

RECURSIVE EscapeStr(_)
EscapeStr(s) ==
    IF s = <<>> THEN <<>> ELSE EscapeChar(Head(s)) \o EscapeStr(Tail(s))

WebsiteJson(w) ==
    Indent(4) \o <<"{", "\n">>
    \o Indent(6) \o Quoted(KeyName) \o <<":", " ">>
    \o Quoted(EscapeStr(w.name)) \o <<",", "\n">>
    \o Indent(6) \o Quoted(KeyUrl) \o <<":", " ">>
    \o Quoted(EscapeStr(w.url)) \o <<"\n">>
    \o Indent(4) \o <<"}">>

RECURSIVE WebsitesJson(_)
WebsitesJson(ws) ==
    IF Len(ws) = 1 THEN WebsiteJson(ws[1])
    ELSE WebsiteJson(Head(ws)) \o <<",", "\n">> \o WebsitesJson(Tail(ws))

to_string_pretty(ws) ==
    <<"{", "\n">> \o Indent(2) \o Quoted(KeyWebsites) \o <<":", " ">>
    \o (IF ws = <<>> THEN <<"[", "]">>
        ELSE <<"[", "\n">> \o WebsitesJson(ws) \o <<"\n">> \o Indent(2) \o <<"]">>)
    \o <<"\n", "}">>

----------------------------------------------------------------------------
(* serde_json::from_str::<Config>: a recursive-descent reader of the       *)
(* document {"websites": [{"name": string, "url": string}, ...]}.          *)
(* Whitespace between tokens is skipped, unknown keys whose value is a     *)
(* string are ignored, a repeated or missing field, a value of the wrong   *)
(* type, an unterminated string, a raw control character inside a string   *)
(* and trailing characters are errors.  The escapes \b, \f and \uXXXX and  *)
(* unknown keys with non-string values do not occur in the files below.    *)

Fail == [ok |-> FALSE, val |-> <<>>, pos |-> 0]

Ok(v, p) == [ok |-> TRUE, val |-> v, pos |-> p]

At(s, i) == IF i >= 1 /\ i <= Len(s) THEN s[i] ELSE "EOF"

IsWs(c) == c \in {" ", "\n", "\t", "\r"}

RECURSIVE SkipWs(_, _)
SkipWs(s, i) == IF IsWs(At(s, i)) THEN SkipWs(s, i + 1) ELSE i

Escapes == {"\"", "\\", "/", "n", "t", "r"}

Unescape(e) ==
    IF e = "n" THEN "\n"
    ELSE IF e = "t" THEN "\t"
    ELSE IF e = "r" THEN "\r"
    ELSE e

RECURSIVE ParseStrBody(_, _, _)
ParseStrBody(s, i, acc) ==
    LET c == At(s, i)
    IN  IF c = "EOF" THEN Fail
        ELSE IF c = "\"" THEN Ok(acc, i + 1)
        ELSE IF c = "\\"
             THEN IF At(s, i + 1) \in Escapes
                  THEN ParseStrBody(s, i + 2, Append(acc, Unescape(At(s, i + 1))))
                  ELSE Fail
        ELSE IF c \in {"\n", "\t", "\r"} THEN Fail
        ELSE ParseStrBody(s, i + 1, Append(acc, c))

ParseString(s, i) ==
    IF At(s, i) = "\"" THEN ParseStrBody(s, i + 1, <<>>) ELSE Fail

(* The members of one Website object, from the first key on: key k, then *)
(* ':', then value v, then ',' or '}' at e.                                *)
RECURSIVE ParseWebsiteMembers(_, _, _, _)

WebsiteMemberEnd(s, e, name, url) ==
    IF At(s, e) = "," THEN ParseWebsiteMembers(s, SkipWs(s, e + 1), name, url)
    ELSE IF At(s, e) = "}"
         THEN IF name # None /\ url # None
              THEN Ok(Website(name[1], url[1]), e + 1)
              ELSE Fail
    ELSE Fail

WebsiteValueRead(s, key, v, name, url) ==
    IF ~v.ok THEN Fail
    ELSE IF (key = KeyName /\ name # None) \/ (key = KeyUrl /\ url # None)
         THEN Fail
    ELSE WebsiteMemberEnd(s, SkipWs(s, v.pos),
                          IF key = KeyName THEN Some(v.val) ELSE name,
                          IF key = KeyUrl THEN Some(v.val) ELSE url)

WebsiteKeyRead(s, k, name, url) ==
    IF ~k.ok THEN Fail
    ELSE IF At(s, SkipWs(s, k.pos)) # ":" THEN Fail
    ELSE WebsiteValueRead(s, k.val,
                          ParseString(s, SkipWs(s, SkipWs(s, k.pos) + 1)),
                          name, url)

ParseWebsiteMembers(s, i, name, url) ==
    WebsiteKeyRead(s, ParseString(s, i), name, url)

ParseWebsite(s, i) ==
    IF At(s, i) # "{" THEN Fail
    ELSE IF At(s, SkipWs(s, i + 1)) = "}" THEN Fail
    ELSE ParseWebsiteMembers(s, SkipWs(s, i + 1), None, None)

RECURSIVE ParseWebsiteElems(_, _, _)

WebsiteElemEnd(s, e, acc) ==
    IF At(s, e) = "," THEN ParseWebsiteElems(s, SkipWs(s, e + 1), acc)
    ELSE IF At(s, e) = "]" THEN Ok(acc, e + 1)
    ELSE Fail

WebsiteElemRead(s, w, acc) ==
    IF ~w.ok THEN Fail
    ELSE WebsiteElemEnd(s, SkipWs(s, w.pos), Append(acc, w.val))

ParseWebsiteElems(s, i, acc) == WebsiteElemRead(s, ParseWebsite(s, i), acc)

ParseWebsiteArray(s, i) ==
    IF At(s, i) # "[" THEN Fail
    ELSE IF At(s, SkipWs(s, i + 1)) = "]" THEN Ok(<<>>, SkipWs(s, i + 1) + 1)
    ELSE ParseWebsiteElems(s, SkipWs(s, i + 1), <<>>)

(* The members of the Config object, from the first key on. *)
RECURSIVE ParseConfigMembers(_, _, _)

ConfigMemberEnd(s, e, ws) ==
    IF At(s, e) = "," THEN ParseConfigMembers(s, SkipWs(s, e + 1), ws)
    ELSE IF At(s, e) = "}"
         THEN IF ws # None THEN Ok(ws[1], e + 1) ELSE Fail
    ELSE Fail

ConfigValueRead(s, key, v, ws) ==
    IF ~v.ok THEN Fail
    ELSE IF key = KeyWebsites /\ ws # None THEN Fail
    ELSE ConfigMemberEnd(s, SkipWs(s, v.pos),
                         IF key = KeyWebsites THEN Some(v.val) ELSE ws)

ConfigKeyRead(s, k, ws) ==
    IF ~k.ok THEN Fail
    ELSE IF At(s, SkipWs(s, k.pos)) # ":" THEN Fail
    ELSE ConfigValueRead(s, k.val,
                         IF k.val = KeyWebsites
                         THEN ParseWebsiteArray(s, SkipWs(s, SkipWs(s, k.pos) + 1))
                         ELSE ParseString(s, SkipWs(s, SkipWs(s, k.pos) + 1)),
                         ws)

ParseConfigMembers(s, i, ws) == ConfigKeyRead(s, ParseString(s, i), ws)

ParseConfig(s, i) ==
    IF At(s, i) # "{" THEN Fail
    ELSE IF At(s, SkipWs(s, i + 1)) = "}" THEN Fail
    ELSE ParseConfigMembers(s, SkipWs(s, i + 1), None)

(* Nothing but whitespace may follow the document. *)
Document(s, r) ==
    IF ~r.ok THEN Fail
    ELSE IF SkipWs(s, r.pos) # Len(s) + 1 THEN Fail
    ELSE r

from_str(s) == Document(s, ParseConfig(s, SkipWs(s, 1)))

----------------------------------------------------------------------------
(* The configuration file the first invocation can find: none, one that   *)
(* serde_json rejects, one written by an earlier save, one written by hand *)
(* (compact, with an extra key, or with a repeated name).                  *)

EmptyFile == <<>>

TruncatedFile == <<"{", "\n", " ", " ", "\"", "w", "e", "b">>

NoWebsitesFile == <<"{", "}">>

UnparsableFiles == { EmptyFile, TruncatedFile, NoWebsitesFile }

HandWrittenFile ==
    <<"{", "\"", "v", "\"", ":", "\"", "1", "\"", ",">>
    \o Quoted(KeyWebsites) \o <<":", "[", "{">>
    \o Quoted(KeyUrl) \o <<":", "\"", "x", "\"", ",">>
    \o Quoted(KeyName) \o <<":", "\"", "a", "\"", "}", "]", "}", "\n">>

SavedStores == SeqsUpTo(Websites, MaxInitLen)


(* A file edited by hand in which one name occurs twice. *)
RepeatedNameFile ==
    to_string_pretty(<<Website(<<"a">>, <<"x">>), Website(<<"a">>, <<"y", "\\">>)>>)

OtherFiles ==
    {Absent} \cup UnparsableFiles \cup {HandWrittenFile, RepeatedNameFile}

----------------------------------------------------------------------------
(* Config: the methods of impl Config as functions of the configuration,   *)
(* the file and the outcome of the file-system calls.                      *)

(* fs::create_dir_all and fs::write of Config::save: they succeed, or fail *)
(* before the file is touched, or fail after fs::write truncated it.       *)
SaveOutcomes == {"ok", "unwritten", "truncated"}

save(ws, f, io) ==
    IF io = "ok" THEN [file |-> to_string_pretty(ws), panicked |-> FALSE]
    ELSE IF io = "unwritten" THEN [file |-> f, panicked |-> TRUE]
    ELSE [file |-> EmptyFile, panicked |-> TRUE]

(* .unwrap_or_else(|_| Config { websites: vec![] }) *)
unwrap_or_else(r) == IF r.ok THEN r.val ELSE <<>>

load(f, readOk) ==
    IF f # Absent
    THEN IF readOk
         THEN [websites |-> unwrap_or_else(from_str(f)), panicked |-> FALSE]
         ELSE [websites |-> <<>>, panicked |-> TRUE]
    ELSE [websites |-> <<>>, panicked |-> FALSE]

(* A duplicate check that looks at the last entry only. *)
name_exists_lastOnly(ws, name) == Len(ws) > 0 /\ ws[Len(ws)].name = name

name_exists(ws, name) == \E i \in 1..Len(ws) : ws[i].name = name

(* An insertion at the front. *)
push_front(ws, w) == <<w>> \o ws

push(ws, w) == Append(ws, w)

(* A retain with the predicate inverted. *)
retain_inverted(ws, name) == SelectSeq(ws, LAMBDA w : w.name = name)

retain(ws, name) == SelectSeq(ws, LAMBDA w : w.name # name)

(* An add_website that ends the process on a duplicate. *)
add_website_fatalDuplicate(ws, f, name, url, io) ==
    IF name_exists(ws, name)
    THEN [websites |-> ws, file |-> f, saves |-> 0, io |-> "none",
          out |-> <<"already exists">>, panicked |-> TRUE]
    ELSE LET sv == save(push(ws, Website(name, url)), f, io)
         IN  [websites |-> push(ws, Website(name, url)), file |-> sv.file,
              saves |-> 1, io |-> io,
              out |-> IF sv.panicked THEN <<>> ELSE <<"Added successfully!">>,
              panicked |-> sv.panicked]

(* An add_website that forgets self.save(). *)
add_website_noSave(ws, f, name, url, io) ==
    IF name_exists(ws, name)
    THEN [websites |-> ws, file |-> f, saves |-> 0, io |-> "none",
          out |-> <<"already exists">>, panicked |-> FALSE]
    ELSE [websites |-> push(ws, Website(name, url)), file |-> f,
          saves |-> 0, io |-> "none",
          out |-> <<"Added successfully!">>, panicked |-> FALSE]

add_website(ws, f, name, url, io) ==
    IF name_exists(ws, name)
    THEN [websites |-> ws, file |-> f, saves |-> 0, io |-> "none",
          out |-> <<"already exists">>, panicked |-> FALSE]
    ELSE LET sv == save(push(ws, Website(name, url)), f, io)
         IN  [websites |-> push(ws, Website(name, url)), file |-> sv.file,
              saves |-> 1, io |-> io,
              out |-> IF sv.panicked THEN <<>> ELSE <<"Added successfully!">>,
              panicked |-> sv.panicked]

(* A remove_website that saves before it compares the lengths. *)
remove_website_alwaysSaves(ws, f, name, io) ==
    LET sv == save(retain(ws, name), f, io)
    IN  [websites |-> retain(ws, name), file |-> sv.file,
         saves |-> 1, io |-> io,
         out |-> IF sv.panicked THEN <<>>
                 ELSE IF Len(retain(ws, name)) < Len(ws) THEN <<"Deleted">>
                 ELSE <<"not found">>,
         panicked |-> sv.panicked]

remove_website(ws, f, name, io) ==
    IF Len(retain(ws, name)) < Len(ws)
    THEN LET sv == save(retain(ws, name), f, io)
         IN  [websites |-> retain(ws, name), file |-> sv.file,
              saves |-> 1, io |-> io,
              out |-> IF sv.panicked THEN <<>> ELSE <<"Deleted">>,
              panicked |-> sv.panicked]
    ELSE [websites |-> retain(ws, name), file |-> f, saves |-> 0, io |-> "none",
          out |-> <<"not found">>, panicked |-> FALSE]

list_websites(ws) == IF ws = <<>> THEN None ELSE Some(ws)

candidate_names(ws) == [i \in 1..Len(ws) |-> ws[i].name]

(* select: FuzzySelect returns one of the options, or an error when the    *)
(* user cancels or confirms without a choice.                              *)
select(options) ==
    { [ok |-> FALSE, val |-> <<"aborted">>],
      [ok |-> FALSE, val |-> <<"no selection made">>] }
    \cup { [ok |-> TRUE, val |-> options[i]] : i \in 1..Len(options) }

find(ws, name) ==
    IF name_exists(ws, name)
    THEN Some(ws[CHOOSE i \in 1..Len(ws) :
                   /\ ws[i].name = name
                   /\ \A j \in 1..(i - 1) : ws[j].name # name])
    ELSE None

(* An open_website that treats an error of select like a launch failure. *)
open_website_fatalAbort(ws, sel, opened) ==
    IF ~sel.ok THEN [launched |-> <<>>, exited |-> TRUE]
    ELSE IF find(ws, sel.val) # None
         THEN [launched |-> <<find(ws, sel.val)[1].url>>, exited |-> ~opened]
         ELSE [launched |-> <<>>, exited |-> FALSE]

(* open_website after select returned sel; opened is the result of        *)
(* open::that.                                                            *)
open_website(ws, sel, opened) ==
    IF ~sel.ok THEN [launched |-> <<>>, exited |-> FALSE]
    ELSE IF find(ws, sel.val) # None
         THEN [launched |-> <<find(ws, sel.val)[1].url>>, exited |-> ~opened]
         ELSE [launched |-> <<>>, exited |-> FALSE]

----------------------------------------------------------------------------
(* Args: what get_args builds from the command line.  --add takes two      *)
(* values and may be repeated, so args.add holds 2 or 4 strings here.      *)

AddPairs == { <<n, u>> : n \in NameArgs, u \in UrlArgs }

(* --add given once, or a second time after it. *)
AddVecs == AddPairs \cup { v \o <<<<"a">>, <<"x">>>> : v \in AddPairs }

ArgsSet ==
    [ add  : {None} \cup { Some(v) : v \in AddVecs },
      del  : {None} \cup { Some(n) : n \in NameArgs },
      open : BOOLEAN,
      list : BOOLEAN ]

----------------------------------------------------------------------------
(* Reference list and bookkeeping that the program does not hold *)

LastSavedAfter(io, ws) ==
    IF io = "ok" THEN Some(ws)
    ELSE IF io = "truncated" THEN None
    ELSE lastSaved

OrderAfterAdd(name, url) ==
    IF \E i \in 1..Len(order) : order[i].name = name
    THEN order
    ELSE order \o <<Website(name, url)>>

OrderAfterRemove(name) ==
    [i \in 1..Cardinality({j \in 1..Len(order) : order[j].name # name}) |->
        order[CHOOSE j \in 1..Len(order) :
                /\ order[j].name # name
                /\ Cardinality({k \in 1..j : order[k].name # name}) = i]]

----------------------------------------------------------------------------
(* One invocation: main calls get_args and run *)

Init ==
    /\ \/ /\ file \in OtherFiles
          /\ lastSaved = None
       \/ \E ws \in SavedStores :
             /\ file = to_string_pretty(ws)
             /\ lastSaved = Some(ws)
    /\ args \in ArgsSet
    /\ pc = "load"
    /\ websites = <<>>
    /\ exit = 0
    /\ out = <<>>
    /\ steps = <<>>
    /\ loads = 0
    /\ saves = 0
    /\ names = None
    /\ selected = None
    /\ launched = <<>>
    /\ listed = None
    /\ ioFailed = FALSE
    /\ fileAtLoad = file
    /\ order = <<>>
    /\ resync = TRUE
    /\ runs = 1

(* let mut config = Config::load(); *)
Load ==
    /\ pc = "load"
    /\ \E readOk \in BOOLEAN :
        LET r == load(file, readOk)
        IN  /\ websites' = r.websites
            /\ loads' = loads + 1
            /\ fileAtLoad' = file
            /\ ioFailed' = (file # Absent /\ ~readOk)
            /\ pc' = IF r.panicked THEN "done" ELSE "init"
            /\ exit' = IF r.panicked THEN 101 ELSE 0
            /\ order' = IF ~r.panicked /\ resync THEN r.websites ELSE order
            /\ resync' = IF r.panicked THEN resync ELSE FALSE
    /\ UNCHANGED <<file, args, out, steps, saves, names, selected, launched,
                   listed, lastSaved, runs>>

(* A run without the init step. *)
InitStep_skipped ==
    /\ pc = "init"
    /\ pc' = "add"
    /\ UNCHANGED <<file, args, websites, exit, out, steps, loads, saves,
                   names, selected, launched, listed, ioFailed, fileAtLoad,
                   lastSaved, order, resync, runs>>

(* // init: if config.websites.len() == 0 { config.save(); } *)
InitStep ==
    /\ pc = "init"
    /\ IF Len(websites) = 0
       THEN \E io \in SaveOutcomes :
               LET sv == save(websites, file, io)
               IN  /\ file' = sv.file
                   /\ saves' = saves + 1
                   /\ lastSaved' = LastSavedAfter(io, websites)
                   /\ ioFailed' = (io # "ok")
                   /\ resync' = sv.panicked
                   /\ pc' = IF sv.panicked THEN "done" ELSE "add"
                   /\ exit' = IF sv.panicked THEN 101 ELSE 0
       ELSE /\ pc' = "add"
            /\ UNCHANGED <<file, saves, lastSaved, ioFailed, resync, exit>>
    /\ UNCHANGED <<args, websites, out, steps, loads, names, selected,
                   launched, listed, fileAtLoad, order, runs>>

(* // add *)
AddStep ==
    /\ pc = "add"
    /\ IF args.add # None /\ Len(args.add[1]) >= 2
       THEN \E io \in SaveOutcomes :
               LET r == add_website(websites, file, args.add[1][1],
                                    args.add[1][2], io)
               IN  /\ websites' = r.websites
                   /\ file' = r.file
                   /\ saves' = saves + r.saves
                   /\ out' = out \o r.out
                   /\ steps' = Append(steps, "add")
                   /\ lastSaved' = LastSavedAfter(r.io, r.websites)
                   /\ order' = OrderAfterAdd(args.add[1][1], args.add[1][2])
                   /\ ioFailed' = (r.io \notin {"none", "ok"})
                   /\ resync' = r.panicked
                   /\ pc' = IF r.panicked THEN "done" ELSE "del"
                   /\ exit' = IF r.panicked THEN 101 ELSE 0
       ELSE /\ pc' = "del"
            /\ UNCHANGED <<websites, file, saves, out, steps, lastSaved, order,
                           ioFailed, resync, exit>>
    /\ UNCHANGED <<args, loads, names, selected, launched, listed, fileAtLoad,
                   runs>>

(* // del *)
DelStep ==
    /\ pc = "del"
    /\ IF args.del # None
       THEN \E io \in SaveOutcomes :
               LET r == remove_website(websites, file, args.del[1], io)
               IN  /\ websites' = r.websites
                   /\ file' = r.file
                   /\ saves' = saves + r.saves
                   /\ out' = out \o r.out
                   /\ steps' = Append(steps, "del")
                   /\ lastSaved' = LastSavedAfter(r.io, r.websites)
                   /\ order' = OrderAfterRemove(args.del[1])
                   /\ ioFailed' = (r.io \notin {"none", "ok"})
                   /\ resync' = r.panicked
                   /\ pc' = IF r.panicked THEN "done" ELSE "open"
                   /\ exit' = IF r.panicked THEN 101 ELSE 0
       ELSE /\ pc' = "open"
            /\ UNCHANGED <<websites, file, saves, out, steps, lastSaved, order,
                           ioFailed, resync, exit>>
    /\ UNCHANGED <<args, loads, names, selected, launched, listed, fileAtLoad,
                   runs>>

(* // open *)
OpenStep ==
    /\ pc = "open"
    /\ IF args.open
       THEN \E sel \in select(candidate_names(websites)), opened \in BOOLEAN :
               LET r == open_website(websites, sel, opened)
               IN  /\ names' = Some(candidate_names(websites))
                   /\ selected' = Some(sel)
                   /\ launched' = launched \o r.launched
                   /\ steps' = Append(steps, "open")
                   /\ out' = IF r.exited THEN Append(out, "Failed to open URL")
                             ELSE out
                   /\ pc' = IF r.exited THEN "done" ELSE "list"
                   /\ exit' = IF r.exited THEN 1 ELSE 0
       ELSE /\ pc' = "list"
            /\ UNCHANGED <<names, selected, launched, steps, out, exit>>
    /\ UNCHANGED <<file, args, websites, loads, saves, listed, ioFailed,
                   fileAtLoad, lastSaved, order, resync, runs>>

(* // list, then Ok(()) *)
ListStep ==
    /\ pc = "list"
    /\ IF args.list
       THEN /\ listed' = list_websites(websites)
            /\ steps' = Append(steps, "list")
            /\ out' = IF list_websites(websites) # None
                      THEN Append(out, "table") ELSE out
       ELSE UNCHANGED <<listed, steps, out>>
    /\ pc' = "done"
    /\ exit' = 0
    /\ UNCHANGED <<file, args, websites, loads, saves, names, selected,
                   launched, ioFailed, fileAtLoad, lastSaved, order, resync,
                   runs>>

NoArgs == [add |-> None, del |-> None, open |-> FALSE, list |-> FALSE]

(* The process has ended: nothing of it is left but the file. *)
Exit ==
    /\ pc = "done"
    /\ runs < MaxRuns
    /\ pc' = "idle"
    /\ args' = NoArgs
    /\ websites' = <<>>
    /\ exit' = 0
    /\ out' = <<>>
    /\ steps' = <<>>
    /\ loads' = 0
    /\ saves' = 0
    /\ names' = None
    /\ selected' = None
    /\ launched' = <<>>
    /\ listed' = None
    /\ ioFailed' = FALSE
    /\ fileAtLoad' = file
    /\ UNCHANGED <<file, lastSaved, order, resync, runs>>

(* The user runs the binary again, with the file the last run left. *)
StartRun ==
    /\ pc = "idle"
    /\ runs' = runs + 1
    /\ args' \in ArgsSet
    /\ pc' = "load"
    /\ UNCHANGED <<file, websites, exit, out, steps, loads, saves, names,
                   selected, launched, listed, ioFailed, fileAtLoad,
                   lastSaved, order, resync>>

Next ==
    \/ Load
    \/ InitStep
    \/ AddStep
    \/ DelStep
    \/ OpenStep
    \/ ListStep
    \/ Exit
    \/ StartRun

Spec == Init /\ [][Next]_vars

----------------------------------------------------------------------------
(* Properties *)

Unique(ws) == \A i, j \in 1..Len(ws) : ws[i].name = ws[j].name => i = j

Holds(ws, name) == \E i \in 1..Len(ws) : ws[i].name = name

Without(ws, name) == SelectSeq(ws, LAMBDA w : w.name # name)

Requested(a) ==
    (IF a.add # None THEN <<"add">> ELSE <<>>)
    \o (IF a.del # None THEN <<"del">> ELSE <<>>)
    \o (IF a.open THEN <<"open">> ELSE <<>>)
    \o (IF a.list THEN <<"list">> ELSE <<>>)

Printed(msg) == \E i \in 1..Len(out) : out[i] = msg

AtStepBoundary == pc \in {"add", "del", "open", "list", "done"} /\ ~ioFailed

(* r, the result of reading a file, is the entries ws. *)
Reads(r, ws) == r.ok /\ r.val = ws

(* C1: every Store the program holds, the one load returned included, has  *)
(* no two entries with the same name.                                      *)
C1_NoRepeatedName == Unique(websites)

(* C2: add(name, url) when an entry of that name exists reports the        *)
(* duplicate and changes nothing: the entries, the existing url and the    *)
(* file stay as they were and save is not called.                          *)
C2_DuplicateAddChangesNothing ==
    [][ (pc = "add" /\ args.add # None /\ Holds(websites, args.add[1][1]))
        => /\ websites' = websites
           /\ file' = file
           /\ saves' = saves
           /\ out' = Append(out, "already exists")
           /\ pc' = "del" ]_vars

C2_Witness ==
    /\ pc = "del"
    /\ out = <<"already exists">>
    /\ \E i \in 1..Len(websites) :
          /\ websites[i].name = args.add[1][1]
          /\ websites[i].url # args.add[1][2]

(* C3: remove(name) when no entry has that name reports not found and      *)
(* leaves the Store and the file unchanged without calling save; when an   *)
(* entry matched, every entry of that name is removed, save is called, and *)
(* success is reported once save has returned (a save that fails ends the  *)
(* process inside remove).                                                 *)
C3_RemoveMissAndHit ==
    [][ (pc = "del" /\ args.del # None)
        => IF Holds(websites, args.del[1])
           THEN /\ websites' = Without(websites, args.del[1])
                /\ saves' = saves + 1
                /\ \/ /\ ioFailed'
                      /\ out' = out
                   \/ /\ ~ioFailed'
                      /\ out' = Append(out, "Deleted")
                      /\ Reads(from_str(file'), websites')
           ELSE /\ websites' = websites
                /\ file' = file
                /\ saves' = saves
                /\ out' = Append(out, "not found")
                /\ pc' = "open" ]_vars

C3_Witness ==
    /\ pc = "open"
    /\ Printed("not found")
    /\ websites # <<>>
    /\ runs = 2

(* C4: round trip.  A Store with unique names that save wrote is what the  *)
(* next load returns: the same entries, names and urls, in the same order. *)
C4_SaveThenLoad ==
    [][ (pc = "load" /\ pc' = "init" /\ lastSaved # None /\ Unique(lastSaved[1]))
        => websites' = lastSaved[1] ]_vars

C4_Witness ==
    /\ pc = "init"
    /\ runs = 2
    /\ lastSaved # None
    /\ Unique(lastSaved[1])
    /\ websites = lastSaved[1]
    /\ Len(websites) = 2
    /\ websites[1].url = <<"y", "\\">>
    /\ websites[2].name = <<"\"", "\n">>

(* C5: order preservation.  At every step boundary the entries are the     *)
(* surviving entries in the order of their insertion, and that is the      *)
(* order of the candidate names given to select and of the rows listed.    *)
C5_InsertionOrder ==
    /\ (pc = "init" \/ AtStepBoundary) => websites = order
    /\ (AtStepBoundary /\ names # None)
          => names[1] = [i \in 1..Len(order) |-> order[i].name]
    /\ (AtStepBoundary /\ listed # None) => listed[1] = order

C5_Witness ==
    /\ pc = "done"
    /\ runs = 2
    /\ ~resync
    /\ Printed("Added successfully!")
    /\ Printed("Deleted")
    /\ names # None
    /\ listed # None
    /\ Len(listed[1]) >= 2

(* C6 as stated: in every invocation that no file-system failure ends, all *)
(* requested steps run, in the order add, del, open, list: the dispatcher  *)
(* never stops after an earlier step.                                      *)
C6_EveryRequestedStepRuns ==
    (pc = "done" /\ ~ioFailed) => steps = Requested(args)

(* C6 amended: the requested steps run in the order add, del, open, list   *)
(* and the process exits 0, whatever add, del and select report, unless    *)
(* open::that fails: then the process exits 1 right after the open step.   *)
(* A non-zero status has no other cause than that or a file-system         *)
(* failure.                                                                *)
C6_RequestedStepsUnlessLaunchFails ==
    /\ (pc = "done" /\ ~ioFailed /\ ~Printed("Failed to open URL"))
          => (steps = Requested(args) /\ exit = 0)
    /\ (pc = "done" /\ Printed("Failed to open URL"))
          => (exit = 1 /\ steps = Requested([args EXCEPT !.list = FALSE]))
    /\ (pc = "done" /\ ioFailed) => exit = 101
    /\ pc # "done" => exit = 0

C6_Witness ==
    /\ pc = "done"
    /\ exit = 0
    /\ steps = <<"add", "del", "open", "list">>
    /\ Printed("already exists")
    /\ Printed("not found")
    /\ selected # None
    /\ ~selected[1].ok

(* C7: empty-store bootstrap.  When the file does not exist, load returns  *)
(* an empty Store and leaves the file system alone; the next step calls    *)
(* save once, and the file exists and holds an empty websites list before  *)
(* any of add, del, open, list runs.                                       *)
C7_Bootstrap ==
    fileAtLoad = Absent
    => /\ pc = "init" => (websites = <<>> /\ file = Absent /\ saves = 0)
       /\ pc = "add"
             => /\ saves = 1
                /\ steps = <<>>
                /\ file # Absent
                /\ Reads(from_str(file), <<>>)
       /\ steps # <<>> => (file # Absent /\ saves >= 1)

C7_Witness ==
    /\ fileAtLoad = Absent
    /\ pc = "add"
    /\ file = <<"{", "\n", " ", " ", "\"", "w", "e", "b", "s", "i", "t", "e",
                "s", "\"", ":", " ", "[", "]", "\n", "}">>

(* C8: when select returns an error (aborted, no selection made) nothing   *)
(* is launched in that invocation and the process exits 0; a url is        *)
(* launched only after select returned a name, and it is the url of an     *)
(* entry of the Store with that name.                                      *)
C8_LaunchOnlyOnSelection ==
    /\ (selected # None /\ ~selected[1].ok)
          => (launched = <<>> /\ (pc = "done" => exit = 0))
    /\ launched # <<>>
          => /\ selected # None
             /\ selected[1].ok
             /\ Len(launched) = 1
             /\ \E i \in 1..Len(websites) :
                   /\ websites[i].name = selected[1].val
                   /\ websites[i].url = launched[1]

C8_Witness ==
    /\ pc = "done"
    /\ selected # None
    /\ ~selected[1].ok
    /\ Len(websites) >= 2

RequestedMutations ==
    (IF args.add # None THEN 1 ELSE 0) + (IF args.del # None THEN 1 ELSE 0)

ReadsNothing(r) == ~r.ok \/ r.val = <<>>

LoadedEmpty == fileAtLoad = Absent \/ ReadsNothing(from_str(fileAtLoad))

SuccessfulMutations ==
    (IF args.add # None /\ ~Printed("already exists") THEN 1 ELSE 0)
    + (IF args.del # None /\ ~Printed("not found") THEN 1 ELSE 0)

(* C9 as stated: load is performed exactly once and save at most once per  *)
(* requested mutating operation, so at most twice.                         *)
C9_AtMostTwoSaves ==
    /\ pc \notin {"idle", "load"} => loads = 1
    /\ saves <= RequestedMutations
    /\ saves <= 2

(* C9 amended: load is performed exactly once; save is called at most once *)
(* by the bootstrap step, and only when the loaded Store is empty, and at  *)
(* most once per requested add or delete, and only when that one did not   *)
(* report a duplicate or a miss: at most three saves.                      *)
C9_AtMostThreeSaves ==
    /\ pc \in {"idle", "load"} => loads = 0
    /\ pc \notin {"idle", "load"} => loads = 1
    /\ \/ saves <= SuccessfulMutations
       \/ saves <= 1 + SuccessfulMutations /\ LoadedEmpty
    /\ saves <= 3

C9_Witness ==
    /\ pc = "done"
    /\ saves = 3
    /\ loads = 1
    /\ ~ioFailed

(* C10: in an invocation in which no file-system call fails, at every step *)
(* boundary after the bootstrap step the entries in the file are the       *)
(* entries of the Store, whatever the file was at the start.               *)
C10_FileMatchesStore ==
    AtStepBoundary
    => /\ file # Absent
       /\ Reads(from_str(file), websites)

C10_Witness ==
    /\ pc = "done"
    /\ ~ioFailed
    /\ fileAtLoad \in UnparsableFiles
    /\ Printed("Added successfully!")
    /\ websites # <<>>

====
